---- MODULE Spec2Model ----
(***************************************************************************)
(* A model of the H-coordinate system (hcs.hpp) and of the sparse Field   *)
(* container built on it (field.hpp).                                      *)
(*                                                                         *)
(* A coord is a natural number below 2^HCS_COORD_BITS.  The vectors tree   *)
(* and data are sequences; element c of the C++ vector is element c+1 of   *)
(* the sequence (operator At).                                             *)
(***************************************************************************)
EXTENDS Naturals, Integers, Sequences, FiniteSets, TLC

(***************************************************************************)
(* Bounds of the model.                                                    *)
(***************************************************************************)

\* Width of coord_t in bits.  The source configures uint64_t; the model keeps
\* the same layout in a narrower word, all arithmetic being taken modulo
\* 2^HCS_COORD_BITS.
HCS_COORD_BITS == 16

\* Deepest level a field of the model is populated to.
MaxFieldLevel == 2

\* Deepest level createEntireLevel(K) left behind in the tree buffer's
\* memory beyond its size (see OobRead).
MaxStale == 2

\* Frames the stack holds before a recursion overflows it.
MaxStack == 6

\* Steps an iteration may take before it counts as running away.
MaxIter == 40

\* Largest value stored by an assignment from a scalar.
MaxValue == 1

\* Calls of getNeighbor made in turn, each on the result of the one before.
MaxSteps == 2

(***************************************************************************)
(* hcs.hpp                                                                 *)
(***************************************************************************)

\* template<size_t dimensions>, instantiated as HCS<2> (ScalarField2).
dimensions == 2

Pow2(n) == 2 ^ n

WordSize == Pow2(HCS_COORD_BITS)

RECURSIVE BitAnd(_, _)
BitAnd(a, b) ==
    IF a = 0 \/ b = 0 THEN 0
    ELSE (a % 2) * (b % 2) + 2 * BitAnd(a \div 2, b \div 2)

RECURSIVE BitOr(_, _)
BitOr(a, b) ==
    IF a = 0 THEN b
    ELSE IF b = 0 THEN a
    ELSE (IF (a % 2) + (b % 2) > 0 THEN 1 ELSE 0) + 2 * BitOr(a \div 2, b \div 2)

\* ~a in a word of HCS_COORD_BITS bits
BitNot(a) == (WordSize - 1) - a

\* a << n and a >> n in a word of HCS_COORD_BITS bits
Shl(a, n) == (a * Pow2(n)) % WordSize
Shr(a, n) == a \div Pow2(n)

\* Index of the highest set bit of c >= 1
RECURSIVE HighBit(_)
HighBit(c) == IF c <= 1 THEN 0 ELSE 1 + HighBit(c \div 2)

part_mask == Pow2(dimensions) - 1
parts == Pow2(dimensions)
max_level == (HCS_COORD_BITS - 2 - dimensions) \div dimensions

\* __builtin_clzll; its result for 0 is undefined and is passed in as clz0
count_leading_zeros(c, clz0) ==
    IF c = 0 THEN clz0 ELSE HCS_COORD_BITS - 1 - HighBit(c)

\* (coord & (1 << (HCS_COORD_BITS - 1))) != 0
IsBoundary(coord) == (coord \div Pow2(HCS_COORD_BITS - 1)) % 2 = 1

GetBoundaryDirection(coord) == Shr(Shl(coord, 1), HCS_COORD_BITS - dimensions)

removeBoundary(coord) == Shr(Shl(coord, dimensions + 1), dimensions + 1)

\* level_t is uint16_t: the subtraction wraps when clz is the full width
GetLevelBitPosition(coord, clz0) ==
    (HCS_COORD_BITS - 1 - count_leading_zeros(coord, clz0) + 65536) % 65536

GetLevel(coord, clz0) == GetLevelBitPosition(coord, clz0) \div dimensions

\* GetLevel of a coord >= 1, where no undefined clz is involved
Level(coord) == GetLevel(coord, HCS_COORD_BITS)

ReduceLevel(coord) ==
    IF IsBoundary(coord) \/ coord <= 1 THEN coord ELSE Shr(coord, dimensions)

IncreaseLevel(coord, new_level_coord) ==
    IF IsBoundary(coord) THEN coord
    ELSE (Shl(coord, dimensions) + new_level_coord) % WordSize

extract(coord, level) == BitAnd(Shr(coord, dimensions * level), part_mask)

CreateMaxLevel(level) == Pow2(level * dimensions + 1) - 1

CreateMinLevel(level) == Pow2(level * dimensions)

\* HCS::HCS(): successor_mask[d] for d in 0 .. 2*dimensions-1
RECURSIVE SuccessorEven(_, _)
SuccessorEven(single, l) ==
    IF l = 0 THEN single
    ELSE BitOr(SuccessorEven(single, l - 1), Shl(single, dimensions * l))

\* successor_mask with successor_mask[d + 1] a copy of successor_mask[d]
\* instead of its complement
successorMaskCopied ==
    [d \in 0..(2 * dimensions - 1) |->
        SuccessorEven(BitAnd(BitNot(Pow2(d \div 2)), part_mask), max_level - 1)]

successor_mask ==
    [d \in 0..(2 * dimensions - 1) |->
        LET single == BitAnd(BitNot(Pow2(d \div 2)), part_mask)
            even == SuccessorEven(single, max_level - 1)
        IN IF d % 2 = 0 THEN even ELSE BitNot(even)]

getNeighbor(coord, direction, clz0) ==
    LET s_mask == successor_mask[direction]
        stepped ==
            IF direction % 2 = 1
            THEN BitOr(BitAnd((BitAnd(coord, s_mask) + WordSize - 1) % WordSize, s_mask),
                       BitAnd(BitNot(s_mask), coord))
            ELSE BitOr(BitAnd((BitOr(coord, s_mask) + 1) % WordSize, BitNot(s_mask)),
                       BitAnd(s_mask, coord))
    IN IF count_leading_zeros(coord, clz0) = count_leading_zeros(stepped, clz0)
       THEN stepped
       ELSE BitOr(BitOr(coord, Pow2(HCS_COORD_BITS - 1)),
                  Shl(direction, HCS_COORD_BITS - 2))

(***************************************************************************)
(* hcs.hpp: getNeighbor2, the path compiled without __BMI2__.  Its masks   *)
(* are computed in unsigned int (1U << n), which has half the bits of      *)
(* coord_t (32 of 64): the model keeps this ratio.  A shift by the width   *)
(* or more is undefined; the outcomes modelled are the shift by the count  *)
(* modulo the width (wraps) and the result 0.                              *)
(***************************************************************************)

UINT_BITS == HCS_COORD_BITS \div 2

UintSize == Pow2(UINT_BITS)

\* 1U << n
OneU(n, wraps) ==
    IF n < UINT_BITS THEN Pow2(n)
    ELSE IF wraps THEN Pow2(n % UINT_BITS) ELSE 0

\* (1U << n) - 1, converted to coord_t
MaskU(n, wraps) == (OneU(n, wraps) + UintSize - 1) % UintSize

boundary_mask == Shl(BitNot(0), HCS_COORD_BITS - dimensions - 1)

\* HCS::HCS(): bmi_mask[d >> 1] = successor_mask[d + 1] & ~boundary_mask
bmi_mask ==
    [dim \in 0..(dimensions - 1) |->
        BitAnd(successor_mask[2 * dim + 1], BitNot(boundary_mask))]

\* getSingleUnscaled: while (level--) result |= (c & (one << ..)) >> ..,
\* with c the coord without its level marker
RECURSIVE singleUnscaledLoop(_, _, _)
singleUnscaledLoop(c, dim, level) ==
    IF level < 0 THEN 0
    ELSE BitOr(Shr(BitAnd(c, Shl(1, dimensions * level + dim)),
                   (dimensions - 1) * level + dim) % UintSize,
               singleUnscaledLoop(c, dim, level - 1))

\* getSingleUnscaled(c, dim): RemoveLevel(c), then the loop from the level
\* of c down to 0
getSingleUnscaled(c, dim, clz0, wraps) ==
    singleUnscaledLoop(BitAnd(c, MaskU(GetLevelBitPosition(c, clz0), wraps)), dim,
                       GetLevelBitPosition(c, clz0) \div dimensions)

\* setSingleUnscaled: while (level--) result |= (unscaled_coord & shift) << ..
RECURSIVE setUnscaledLoop(_, _, _, _)
setUnscaledLoop(result, dim, unscaled_coord, level) ==
    IF level < 0 THEN result
    ELSE setUnscaledLoop(BitOr(result,
                               Shl(BitAnd(unscaled_coord, Shl(1, level)),
                                   (dimensions - 1) * level + dim)),
                         dim, unscaled_coord, level - 1)

\* setSingleUnscaled(result, level, dim, unscaled_coord): the bits of dim
\* below the level marker are cleared, then set from unscaled_coord
setSingleUnscaled(result, level, dim, unscaled_coord, wraps) ==
    setUnscaledLoop(BitAnd(result,
                           BitNot(BitAnd(bmi_mask[dim], MaskU(level * dimensions, wraps)))),
                    dim, unscaled_coord, level)

\* getNeighbor2, once unscaled has been stepped
neighbor2Of(coord, direction, unscaled, clz0, wraps) ==
    IF unscaled >= OneU(GetLevel(coord, clz0), wraps)
    THEN BitOr(BitOr(coord, Pow2(HCS_COORD_BITS - 1)),
               Shl(direction, HCS_COORD_BITS - 2))
    ELSE setSingleUnscaled(coord, GetLevel(coord, clz0), direction \div 2, unscaled, wraps)

\* HCS::getNeighbor2: unscaled += direction & 1 ? -1 : 1 in uint32_t
getNeighbor2(coord, direction, clz0, wraps) ==
    neighbor2Of(coord, direction,
                (getSingleUnscaled(coord, direction \div 2, clz0, wraps)
                     + (IF direction % 2 = 1 THEN UintSize - 1 ELSE 1)) % UintSize,
                clz0, wraps)

\* A coord whose level marker sits on a level position
ValidCoord(c) == c >= 1 /\ ~IsBoundary(c) /\ HighBit(c) % dimensions = 0

(***************************************************************************)
(* field.hpp: the vectors and what lies beyond them                        *)
(***************************************************************************)

\* vector element c
At(v, c) == v[c + 1]

\* vector::resize(n, fill)
Resize(v, n, fill) == [k \in 1..n |-> IF k <= Len(v) THEN v[k] ELSE fill]

\* Reading tree[c] with c >= tree.size() is undefined: it yields whatever the
\* memory behind the vector holds.  The outcomes modelled are the images an
\* earlier createEntireLevel(K) leaves in the buffer (clear() and resize() keep
\* the capacity and do not wipe it): K = 0 is memory holding zeros, K >= 1
\* holds c at the level-K coords and their left-most level-K descendant at
\* the coords of the levels 1..K-1.
OobRead(c, env) ==
    IF c >= 1 /\ ValidCoord(c) /\ Level(c) >= 1 /\ Level(c) <= env.stale
    THEN c * Pow2(dimensions * (env.stale - Level(c)))
    ELSE 0

TreeRead(t, c, env) == IF c < Len(t) THEN At(t, c) ELSE OobRead(c, env)

\* tree[c] = v; a write beyond the vector lands outside it
TreeWrite(t, c, v) == IF c < Len(t) THEN [t EXCEPT ![c + 1] = v] ELSE t

\* Field::exists
exists(t, coord, env) ==
    IF IsBoundary(coord) \/ Len(t) >= coord
    THEN FALSE
    ELSE TreeRead(t, coord, env) >= coord

\* exists reads tree[coord] beyond the vector
existsOob(t, coord) == ~IsBoundary(coord) /\ ~(Len(t) >= coord)

\* Field::isTop, once exists(coord) has passed
isTop(t, coord, env) == TreeRead(t, coord, env) = coord

\* The tree's documented meaning (the comment above Field::tree)
TreeExists(t, c) == c < Len(t) /\ At(t, c) >= c
TreeTop(t, c) == c < Len(t) /\ At(t, c) = c

(***************************************************************************)
(* field.hpp: structure                                                    *)
(***************************************************************************)

\* Field::clear: "tree[1] == 1;" is a comparison, so both vectors hold zeros
clearTree == <<0, 0>>
clearData == <<0, 0>>

\* Field::createEntireLevel, the pass of level l of the loop
createLevelPass(t, l, level) ==
    [k \in 1..Len(t) |->
        IF k - 1 >= CreateMinLevel(l) /\ k - 1 <= CreateMaxLevel(l)
        THEN (IF l = level THEN k - 1 ELSE At(t, IncreaseLevel(k - 1, 0)))
        ELSE t[k]]

\* for (l = level; l > 0; l--)
RECURSIVE createLevelLoop(_, _, _)
createLevelLoop(t, l, level) ==
    IF l = 0 THEN t
    ELSE createLevelLoop(createLevelPass(t, l, level), l - 1, level)

\* Field::createEntireLevel on vectors that passed the "Not empty!" test
createEntireLevel(t, level) ==
    createLevelLoop(Resize(t, CreateMaxLevel(level) + 2, 0), level, level)

\* Field::treefill_up
RECURSIVE treefill_up(_, _, _, _)
RECURSIVE treefillChildren(_, _, _, _, _)
treefill_up(t, dsize, start, value) ==
    LET lower_corner == IncreaseLevel(start, 0)
        upper_corner == IncreaseLevel(start, part_mask)
    IN IF dsize <= upper_corner THEN t
       ELSE treefillChildren(
                [k \in 1..Len(t) |->
                    IF k - 1 >= lower_corner /\ k - 1 <= upper_corner
                    THEN value ELSE t[k]],
                dsize, lower_corner, upper_corner, value)

treefillChildren(t, dsize, c, upper_corner, value) ==
    IF c > upper_corner THEN t
    ELSE treefillChildren(treefill_up(t, dsize, c, value), dsize, c + 1,
                          upper_corner, value)

\* Field::treefill_down
RECURSIVE treefill_down(_, _, _)
treefill_down(t, start, value) ==
    IF BitAnd(start, part_mask) > 0 THEN t
    ELSE LET lower_level == ReduceLevel(start)
             t1 == TreeWrite(t, lower_level, value)
         IN IF lower_level <= 1 THEN t1
            ELSE treefill_down(t1, lower_level, value)

\* Field::coarse: the tree it leaves
coarse(t, dsize, coord, env) ==
    IF ~exists(t, coord, env) THEN t
    ELSE IF isTop(t, coord, env) THEN t
    ELSE treefill_down(
             treefill_up(TreeWrite(t, coord, coord), dsize, coord, coord),
             coord, coord - (coord % parts))

\* Field::sameStructure; the loop runs to tree.size() and reads f.tree[i]
\* beyond the vector when f.tree is the shorter one
sameStructure(t, dsize, ft, fdsize, env) ==
    IF fdsize # dsize THEN FALSE
    ELSE \A i \in 0..(Len(t) - 1) : At(t, i) = TreeRead(ft, i, env)

\* Field::takeStructure: the vectors it leaves
takeStructureTree(t, dsize, ft, fdsize, env) ==
    IF sameStructure(t, dsize, ft, fdsize, env) THEN t ELSE ft

takeStructureData(t, d, ft, fdsize, env) ==
    IF sameStructure(t, Len(d), ft, fdsize, env) THEN d ELSE Resize(d, Len(ft), 0)

(***************************************************************************)
(* field.hpp: get, as far as refinement depends on it: whether the call    *)
(* returns before the recursion exhausts the stack.                        *)
(***************************************************************************)

\* get(): the inner loop over j that walks from origin to corner i; the
\* result is the corner reached and the boundary coords met on the way
RECURSIVE cornerWalk(_, _, _, _, _, _)
cornerWalk(current, shares, j, i, high_part, clz0) ==
    IF j = dimensions THEN [current |-> current, shares |-> shares]
    ELSE IF (i \div Pow2(j)) % 2 = 0
         THEN cornerWalk(current, shares, j + 1, i, high_part, clz0)
         ELSE LET step == getNeighbor(current,
                              2 * j + (IF (high_part \div Pow2(j)) % 2 = 1 THEN 0 ELSE 1),
                              clz0)
              IN IF IsBoundary(step)
                 THEN cornerWalk(current, shares \cup {step}, j + 1, i, high_part, clz0)
                 ELSE cornerWalk(step, shares, j + 1, i, high_part, clz0)

RECURSIVE get(_, _, _, _, _)
RECURSIVE getChildren(_, _, _, _, _, _)
RECURSIVE getCorners(_, _, _, _, _, _)

\* Field::get(coord, result, use_non_top) called with depth frames on the
\* stack: TRUE when it returns
get(t, coord, use_non_top, env, depth) ==
    IF depth > MaxStack THEN FALSE
    ELSE IF IsBoundary(coord) THEN TRUE
    ELSE IF exists(t, coord, env)
         THEN IF use_non_top \/ isTop(t, coord, env) THEN TRUE
              ELSE getChildren(t, coord, 0, use_non_top, env, depth)
         ELSE getCorners(t, coord, 0, use_non_top, env, depth)

\* for (direction = 0; direction < parts; direction++) get(IncreaseLevel(..))
getChildren(t, coord, direction, use_non_top, env, depth) ==
    IF direction >= parts THEN TRUE
    ELSE /\ get(t, IncreaseLevel(coord, direction), use_non_top, env, depth + 1)
         /\ getChildren(t, coord, direction + 1, use_non_top, env, depth)

\* for (i = 0; i <= part_mask; i++) over the corners around coord
getCorners(t, coord, i, use_non_top, env, depth) ==
    IF i > part_mask THEN TRUE
    ELSE LET w == cornerWalk(ReduceLevel(coord), {}, 0, i, extract(coord, 0), env.clz0)
             current_exists == exists(t, w.current, env)
         IN /\ \/ w.shares # {}
               \/ IF ~current_exists \/ (~isTop(t, w.current, env) /\ ~use_non_top)
                  THEN get(t, w.current, use_non_top, env, depth + 1)
                  ELSE TRUE
            /\ getCorners(t, coord, i + 1, use_non_top, env, depth)

\* refineFrom: for (i < parts) interpolated[i] = get(lower_corner + i)
RECURSIVE getAll(_, _, _, _)
getAll(t, lower_corner, i, env) ==
    IF i >= parts THEN TRUE
    ELSE get(t, lower_corner + i, TRUE, env, 1) /\ getAll(t, lower_corner, i + 1, env)

(***************************************************************************)
(* field.hpp: refinement                                                   *)
(***************************************************************************)

\* refineFrom: the loop over the new children c = lower_corner .. upper_corner
RECURSIVE refineChildren(_, _, _, _)
refineChildren(t, dsize, c, upper_corner) ==
    IF c > upper_corner THEN t
    ELSE refineChildren(treefill_up(TreeWrite(t, c, c), dsize, c, c), dsize,
                        c + 1, upper_corner)

\* refineFrom without its "if (!isTop(coord)) return;": a coord that exists is
\* refined whether it is top or not
refineFromAnyExisting(t, d, coord, interpolate_new_values, env) ==
    IF ~exists(t, coord, env)
    THEN [tree |-> t, data |-> d, outcome |-> "range_error"]
    ELSE
      LET lower_corner == IncreaseLevel(coord, 0)
          upper_corner == IncreaseLevel(coord, part_mask)
          max_coord == CreateMaxLevel(Level(upper_corner)) + 2
          grow == Len(d) <= upper_corner
      IN [tree |-> refineChildren(
                       TreeWrite(IF grow THEN Resize(t, max_coord, 0) ELSE t,
                                 coord, lower_corner),
                       IF grow THEN max_coord ELSE Len(d), lower_corner, upper_corner),
          data |-> IF grow THEN Resize(d, max_coord, 0) ELSE d,
          outcome |-> "ok"]

\* Field::refineFrom: the vectors it leaves and how it ends
refineFrom(t, d, coord, interpolate_new_values, env) ==
    IF ~exists(t, coord, env)
    THEN [tree |-> t, data |-> d, outcome |-> "range_error"]
    ELSE IF ~isTop(t, coord, env)
    THEN [tree |-> t, data |-> d, outcome |-> "ok"]
    ELSE
      LET lower_corner == IncreaseLevel(coord, 0)
          upper_corner == IncreaseLevel(coord, part_mask)
          max_coord == CreateMaxLevel(Level(upper_corner)) + 2
          grow == Len(d) <= upper_corner
          d1 == IF grow THEN Resize(d, max_coord, 0) ELSE d
          t1 == IF grow THEN Resize(t, max_coord, 0) ELSE t
          \* vector<DTYPE> interpolated(parts, data[coord])
          value == IF coord < Len(d1) THEN At(d1, coord) ELSE 0
      IN IF interpolate_new_values /\ ~getAll(t1, lower_corner, 0, env)
         THEN [tree |-> t1, data |-> d1, outcome |-> "stack_overflow"]
         ELSE [tree |-> refineChildren(TreeWrite(t1, coord, lower_corner),
                                       Len(d1), lower_corner, upper_corner),
               data |-> [k \in 1..Len(d1) |->
                            IF k - 1 >= lower_corner /\ k - 1 <= upper_corner
                            THEN value ELSE d1[k]],
               outcome |-> "ok"]

\* refineTo: while (!exists(existing)) existing = ReduceLevel(existing), i++.
\* The loop never ends once ReduceLevel leaves existing as it is.
RECURSIVE refineToDown(_, _, _, _)
refineToDown(t, existing, i, env) ==
    IF exists(t, existing, env) THEN [found |-> TRUE, existing |-> existing, i |-> i]
    ELSE IF ReduceLevel(existing) = existing
         THEN [found |-> FALSE, existing |-> existing, i |-> i]
         ELSE refineToDown(t, ReduceLevel(existing), i + 1, env)

\* refineTo: while (i-- > 0) refineFrom(existing), existing = IncreaseLevel(..)
RECURSIVE refineToUp(_, _, _, _, _)
refineToUp(st, existing, i, coord, env) ==
    IF i <= 0 \/ st.outcome # "ok" THEN st
    ELSE refineToUp(refineFrom(st.tree, st.data, existing, TRUE, env),
                    IncreaseLevel(existing, extract(coord, i - 1)), i - 1, coord, env)

\* Field::refineTo
refineTo(t, d, coord, env) ==
    LET down == refineToDown(t, coord, 0, env)
    IN IF ~down.found THEN [tree |-> t, data |-> d, outcome |-> "hang"]
       ELSE refineToUp([tree |-> t, data |-> d, outcome |-> "ok"],
                       down.existing, down.i, coord, env)

(***************************************************************************)
(* field.hpp: Field::iterator                                              *)
(***************************************************************************)

\* Steps granted to one iteration: more than any vector or stale buffer holds
IterFuel == CreateMaxLevel(MaxFieldLevel) + CreateMaxLevel(MaxStale) + MaxIter

\* operator++ without top_only: the do .. while loop, entered with new_coord
\* read from tree[current].  The result is the iterator's current and at_end;
\* ok = FALSE when the loop outlives its fuel, oob = TRUE when it read tree[]
\* beyond the vector.
RECURSIVE iterSkip(_, _, _, _, _, _)
iterSkip(t, current, new_coord, env, fuel, oob) ==
    IF fuel = 0 THEN [current |-> current, at_end |-> FALSE, ok |-> FALSE, oob |-> oob]
    ELSE
      LET last == GetLevel(current - 1, env.clz0)
          jumped == IF new_coord = 0 THEN CreateMinLevel(last + 1) ELSE current
          l_current == GetLevel(new_coord, env.clz0)
          l_new == GetLevel(new_coord, env.clz0)
          skip == parts ^ (l_new - l_current)
          moved == IF new_coord < jumped THEN jumped + skip ELSE jumped
          next_coord == TreeRead(t, moved, env)
          oob1 == oob \/ moved >= Len(t)
      IN IF new_coord = 0 /\ jumped >= Len(t) - 1
         THEN [current |-> jumped - 1, at_end |-> TRUE, ok |-> TRUE, oob |-> oob]
         ELSE IF next_coord < moved
              THEN iterSkip(t, moved, next_coord, env, fuel - 1, oob1)
              ELSE [current |-> moved, at_end |-> FALSE, ok |-> TRUE, oob |-> oob1]

\* iterator::operator++
iterNext(t, current, top_only, env) ==
    IF top_only
    THEN LET c == TreeRead(t, current + 1, env)
         IN [current |-> c, at_end |-> (c = 0), ok |-> TRUE,
             oob |-> current + 1 >= Len(t)]
    ELSE iterSkip(t, current + 1, TreeRead(t, current + 1, env), env, IterFuel,
                  current + 1 >= Len(t))

\* One pass of "for (it = begin(top_only); it != end(); ++it)": the body
\* dereferences it, then ++it.  st is the iterator with what the loop has
\* seen so far; a loop that is over stays as it is.
iterStep(t, st, top_only, env) ==
    IF st.at_end \/ ~st.ok THEN st
    ELSE LET n == iterNext(t, st.current, top_only, env)
         IN [current |-> n.current, at_end |-> n.at_end, ok |-> n.ok,
             oob |-> st.oob \/ n.oob \/ st.current >= Len(t),
             visited |-> Append(st.visited, st.current)]

\* n passes of the loop: the first half of them and, unless the loop is over
\* by then, the rest
RECURSIVE iterLoop(_, _, _, _, _)
iterLoop(t, st, top_only, env, n) ==
    IF n <= 1 THEN iterStep(t, st, top_only, env)
    ELSE LET half == iterLoop(t, st, top_only, env, n \div 2)
         IN IF half.at_end \/ ~half.ok THEN half
            ELSE iterLoop(t, half, top_only, env, n - n \div 2)

\* begin(top_only) and the loop to end(): the coords dereferenced, in order;
\* ok = FALSE when the loop is not over after IterFuel passes
iterate(t, top_only, env) ==
    LET at_end == At(t, 1) = 1
        current == IF ~at_end /\ top_only THEN At(t, 1) ELSE 1
        st == iterLoop(t, [current |-> current, at_end |-> at_end, ok |-> TRUE,
                           oob |-> FALSE, visited |-> <<>>],
                       top_only, env, IterFuel)
    IN [visited |-> st.visited, ok |-> st.ok /\ st.at_end, oob |-> st.oob]

\* The set of the coords a sequence holds
Range(seq) == {seq[n] : n \in 1..Len(seq)}

\* Field::operator=(DTYPE): e.second = f for every element iterated
assignScalar(d, f, seen) ==
    LET coords == Range(seen)
    IN [k \in 1..Len(d) |-> IF k - 1 \in coords THEN f ELSE d[k]]

(***************************************************************************)
(* field.hpp: getCoeffs.  data_t weights are kept as exact fractions       *)
(* <<numerator, denominator>> in lowest terms.                             *)
(***************************************************************************)

RECURSIVE GCD(_, _)
GCD(a, b) == IF b = 0 THEN a ELSE GCD(b, a % b)

\* data_t: a fraction n / d in lowest terms, d >= 1
Frac(n, d) == LET g == GCD(n, d) IN IF n = 0 THEN <<0, 1>> ELSE <<n \div g, d \div g>>
FracAdd(a, b) == Frac(a[1] * b[2] + b[1] * a[2], a[2] * b[2])
FracMul(a, b) == Frac(a[1] * b[1], a[2] * b[2])

\* The sequence's elements as a set
Elements(seq) == {seq[n] : n \in 1..Len(seq)}

\* coeffs[k], a missing key reading as 0
coeffAt(coeffs, k) == IF k \in DOMAIN coeffs THEN coeffs[k] ELSE <<0, 1>>

\* coeff_map_t: coeffs[k] += w, a missing key starting from 0
coeffAdd(coeffs, k, w) ==
    [x \in DOMAIN coeffs \cup {k} |->
        IF x = k THEN FracAdd(coeffAt(coeffs, x), w) ELSE coeffs[x]]

\* for (auto &coeff : partial) coeffs[coeff.first] += coeff.second * weight
coeffAddAll(coeffs, partial, weight) ==
    [k \in DOMAIN coeffs \cup DOMAIN partial |->
        IF k \in DOMAIN partial
        THEN FracAdd(coeffAt(coeffs, k), FracMul(partial[k], weight))
        ELSE coeffs[k]]

\* coeffs.insert(partial.begin(), partial.end()) after coeff.second /= parts:
\* map::insert leaves a key that is present as it is
coeffInsert(coeffs, partial) ==
    [k \in DOMAIN coeffs \cup DOMAIN partial |->
        IF k \in DOMAIN coeffs THEN coeffs[k]
        ELSE FracMul(partial[k], <<1, parts>>)]

\* for (auto bcc : bc_collector) coeffs[bcc] += weight / bc_collector.size():
\* a coord the vector holds n times receives n shares
coeffShare(coeffs, bc_collector, weight) ==
    [k \in DOMAIN coeffs \cup Elements(bc_collector) |->
        IF k \in Elements(bc_collector)
        THEN FracAdd(coeffAt(coeffs, k),
                     FracMul(weight,
                             <<Cardinality({n \in 1..Len(bc_collector) : bc_collector[n] = k}),
                               Len(bc_collector)>>))
        ELSE coeffs[k]]

\* boundary_quench[j]
boundary_quench(coord, j, clz0) ==
    IsBoundary(getNeighbor(ReduceLevel(coord),
                           2 * j + (IF (extract(coord, 0) \div Pow2(j)) % 2 = 1 THEN 0 ELSE 1),
                           clz0))

\* weight *= boundary_quench[j] ? 0.5 : (((i >> j) & 1) ? 0.25 : 0.75)
RECURSIVE cornerWeight(_, _, _, _)
cornerWeight(coord, i, j, clz0) ==
    IF j = dimensions THEN <<1, 1>>
    ELSE FracMul(IF boundary_quench(coord, j, clz0) THEN <<1, 2>>
                 ELSE IF (i \div Pow2(j)) % 2 = 1 THEN <<1, 4>> ELSE <<3, 4>>,
                 cornerWeight(coord, i, j + 1, clz0))

\* getCoeffs(): the inner loop over j that walks from origin to corner i; the
\* boundary coords met are pushed to the vector bc_collector
RECURSIVE coeffWalk(_, _, _, _, _, _)
coeffWalk(current, bc_collector, j, i, high_part, clz0) ==
    IF j = dimensions THEN [current |-> current, bc_collector |-> bc_collector]
    ELSE IF (i \div Pow2(j)) % 2 = 0
         THEN coeffWalk(current, bc_collector, j + 1, i, high_part, clz0)
         ELSE LET step == getNeighbor(current,
                              2 * j + (IF (high_part \div Pow2(j)) % 2 = 1 THEN 0 ELSE 1),
                              clz0)
              IN IF IsBoundary(step)
                 THEN coeffWalk(current, Append(bc_collector, step), j + 1, i,
                                high_part, clz0)
                 ELSE coeffWalk(step, bc_collector, j + 1, i, high_part, clz0)

RECURSIVE getCoeffsExit(_, _, _, _, _)
RECURSIVE coeffChildrenExit(_, _, _, _, _, _)
RECURSIVE coeffCornersExit(_, _, _, _, _, _)
RECURSIVE coeffCornerExit(_, _, _, _, _)

\* Field::getCoeffs(coord, coeffs, use_non_top, recursion): TRUE when the
\* call ends the process with exit(1), the recursion limit being reached
getCoeffsExit(t, coord, use_non_top, env, recursion) ==
    IF IsBoundary(coord) THEN FALSE
    ELSE IF recursion > max_level THEN TRUE
    ELSE IF exists(t, coord, env)
         THEN IF isTop(t, coord, env) \/ use_non_top THEN FALSE
              ELSE coeffChildrenExit(t, coord, 0, use_non_top, env, recursion)
         ELSE coeffCornersExit(t, coord, 0, use_non_top, env, recursion)

coeffChildrenExit(t, coord, direction, use_non_top, env, recursion) ==
    IF direction >= parts THEN FALSE
    ELSE \/ getCoeffsExit(t, IncreaseLevel(coord, direction), use_non_top, env,
                          recursion + 1)
         \/ coeffChildrenExit(t, coord, direction + 1, use_non_top, env, recursion)

coeffCornersExit(t, coord, i, use_non_top, env, recursion) ==
    IF i > part_mask THEN FALSE
    ELSE \/ coeffCornerExit(t, coeffWalk(ReduceLevel(coord), <<>>, 0, i,
                                         extract(coord, 0), env.clz0),
                            use_non_top, env, recursion)
         \/ coeffCornersExit(t, coord, i + 1, use_non_top, env, recursion)

\* the pass of one corner: w is where the walk ended
coeffCornerExit(t, w, use_non_top, env, recursion) ==
    /\ w.bc_collector = <<>>
    /\ ~exists(t, w.current, env) \/ (~isTop(t, w.current, env) /\ ~use_non_top)
    /\ getCoeffsExit(t, w.current, use_non_top, env, recursion + 1)

RECURSIVE getCoeffs(_, _, _, _)
RECURSIVE coeffChildren(_, _, _, _, _)
RECURSIVE coeffCorners(_, _, _, _, _)
RECURSIVE coeffCorner(_, _, _, _, _, _)

\* Field::getCoeffs(coord, coeffs, use_non_top) on an empty map: the map it
\* leaves when it returns
getCoeffs(t, coord, use_non_top, env) ==
    IF IsBoundary(coord) THEN (coord :> <<1, 1>>)
    ELSE IF exists(t, coord, env)
         THEN IF isTop(t, coord, env) \/ use_non_top
              THEN (coord :> <<1, 1>>)
              ELSE coeffChildren(t, coord, parts - 1, use_non_top, env)
         ELSE coeffCorners(t, coord, part_mask, use_non_top, env)

\* for (direction = 0; direction < parts; direction++): the map after the
\* pass of direction
coeffChildren(t, coord, direction, use_non_top, env) ==
    IF direction < 0 THEN <<>>
    ELSE coeffInsert(coeffChildren(t, coord, direction - 1, use_non_top, env),
                     getCoeffs(t, IncreaseLevel(coord, direction), use_non_top, env))

\* for (i = 0; i <= part_mask; i++) over the corners around coord: the map
\* after the pass of corner i
coeffCorners(t, coord, i, use_non_top, env) ==
    IF i < 0 THEN <<>>
    ELSE coeffCorner(t, coeffCorners(t, coord, i - 1, use_non_top, env),
                     coeffWalk(ReduceLevel(coord), <<>>, 0, i, extract(coord, 0), env.clz0),
                     cornerWeight(coord, i, 0, env.clz0), use_non_top, env)

\* the pass of one corner: w is where the walk ended
coeffCorner(t, coeffs, w, weight, use_non_top, env) ==
    IF w.bc_collector # <<>>
    THEN coeffShare(coeffs, w.bc_collector, weight)
    ELSE IF ~exists(t, w.current, env) \/ (~isTop(t, w.current, env) /\ ~use_non_top)
    THEN coeffAddAll(coeffs, getCoeffs(t, w.current, use_non_top, env), weight)
    ELSE coeffAdd(coeffs, w.current, weight)

(***************************************************************************)
(* field.hpp: get, the value it computes.  No boundary callback is         *)
(* registered: boundary[] holds nullptr as the constructor leaves it.      *)
(***************************************************************************)

\* data[c]; beyond the vector the read yields whatever lies there (env.junk)
DataRead(d, c, env) == IF c < Len(d) THEN <<At(d, c), 1>> ELSE <<env.junk, 1>>

RECURSIVE getResult(_, _, _, _, _)
RECURSIVE getResultChildren(_, _, _, _, _, _)
RECURSIVE getResultCorners(_, _, _, _, _, _)
RECURSIVE getResultCorner(_, _, _, _, _, _)

\* Field::get(coord, result, use_non_top) entered with result = 0: the
\* result it leaves when it returns
getResult(t, d, coord, use_non_top, env) ==
    IF IsBoundary(coord) THEN <<0, 1>>
    ELSE IF exists(t, coord, env)
         THEN IF use_non_top \/ isTop(t, coord, env)
              THEN DataRead(d, coord, env)
              ELSE getResultChildren(t, d, coord, 0, use_non_top, env)
         ELSE getResultCorners(t, d, coord, 0, use_non_top, env)

\* for (direction = 0; direction < parts; direction++) result += partial / parts
getResultChildren(t, d, coord, direction, use_non_top, env) ==
    IF direction >= parts THEN <<0, 1>>
    ELSE FracAdd(FracMul(getResult(t, d, IncreaseLevel(coord, direction),
                                   use_non_top, env),
                         <<1, parts>>),
                 getResultChildren(t, d, coord, direction + 1, use_non_top, env))

\* for (i = 0; i <= part_mask; i++) over the corners around coord
getResultCorners(t, d, coord, i, use_non_top, env) ==
    IF i > part_mask THEN <<0, 1>>
    ELSE FracAdd(getResultCorner(t, d,
                                 cornerWalk(ReduceLevel(coord), {}, 0, i,
                                            extract(coord, 0), env.clz0),
                                 cornerWeight(coord, i, 0, env.clz0), use_non_top, env),
                 getResultCorners(t, d, coord, i + 1, use_non_top, env))

\* the pass of one corner: w is where the walk ended; a corner beyond the
\* boundary adds nothing, its callback being nullptr
getResultCorner(t, d, w, weight, use_non_top, env) ==
    IF w.shares # {} THEN <<0, 1>>
    ELSE IF ~exists(t, w.current, env) \/ (~isTop(t, w.current, env) /\ ~use_non_top)
    THEN FracMul(getResult(t, d, w.current, use_non_top, env), weight)
    ELSE FracMul(DataRead(d, w.current, env), weight)

(***************************************************************************)
(* field.hpp: coeff_up_count and coeff_down_count, as get and getCoeffs    *)
(* raise them: <<coeff_up_count++ executed, coeff_down_count++ executed>>  *)
(* by a call that returns.  Both functions recurse at the same places.     *)
(***************************************************************************)

CountAdd(a, b) == <<a[1] + b[1], a[2] + b[2]>>

RECURSIVE coeffCount(_, _, _, _)
RECURSIVE coeffCountChildren(_, _, _, _, _)
RECURSIVE coeffCountCorners(_, _, _, _, _)
RECURSIVE coeffCountCorner(_, _, _, _)

\* get(coord, result, use_non_top) or getCoeffs(coord, coeffs, use_non_top)
coeffCount(t, coord, use_non_top, env) ==
    IF IsBoundary(coord) THEN <<0, 0>>
    ELSE IF exists(t, coord, env)
         THEN IF use_non_top \/ isTop(t, coord, env) THEN <<0, 0>>
              ELSE coeffCountChildren(t, coord, 0, use_non_top, env)
         ELSE coeffCountCorners(t, coord, 0, use_non_top, env)

\* for (direction = 0; direction < parts; direction++) { coeff_up_count++; .. }
coeffCountChildren(t, coord, direction, use_non_top, env) ==
    IF direction >= parts THEN <<0, 0>>
    ELSE CountAdd(CountAdd(<<1, 0>>,
                           coeffCount(t, IncreaseLevel(coord, direction), use_non_top, env)),
                  coeffCountChildren(t, coord, direction + 1, use_non_top, env))

\* for (i = 0; i <= part_mask; i++) over the corners around coord
coeffCountCorners(t, coord, i, use_non_top, env) ==
    IF i > part_mask THEN <<0, 0>>
    ELSE CountAdd(coeffCountCorner(t, cornerWalk(ReduceLevel(coord), {}, 0, i,
                                                 extract(coord, 0), env.clz0),
                                   use_non_top, env),
                  coeffCountCorners(t, coord, i + 1, use_non_top, env))

\* the pass of one corner: coeff_down_count++ before the recursive call
coeffCountCorner(t, w, use_non_top, env) ==
    IF w.shares # {} THEN <<0, 0>>
    ELSE IF ~exists(t, w.current, env) \/ (~isTop(t, w.current, env) /\ ~use_non_top)
    THEN CountAdd(<<0, 1>>, coeffCount(t, w.current, use_non_top, env))
    ELSE <<0, 0>>

(***************************************************************************)
(* field.hpp: the assignment and arithmetic operators                      *)
(***************************************************************************)

\* operator=(const Field& f): the assert, then data = f.data.  ndebug is
\* whether the build defines NDEBUG, which compiles the assert away; with
\* the assert in place a failure ends the process in abort()
assignField(d, fd, ndebug) ==
    IF Len(d) = Len(fd) \/ ndebug
    THEN [data |-> fd, outcome |-> "ok"]
    ELSE [data |-> d, outcome |-> "abort"]

\* Field(const Field& f): tree and data are copied
copyField(f) == [tree |-> f.tree, data |-> f.data]

\* e.second op= v on one element; a quotient by 0 is no finite value,
\* marked by the denominator 0
opValue(op, a, v) ==
    CASE op = "+=" -> FracAdd(<<a, 1>>, v)
      [] op = "-=" -> FracAdd(<<a, 1>>, <<0 - v[1], v[2]>>)
      [] op = "*=" -> FracMul(<<a, 1>>, v)
      [] op = "/=" -> IF v[1] = 0 THEN <<1, 0>> ELSE FracMul(<<a, 1>>, <<v[2], v[1]>>)

\* The operator, were it to start from an empty structure
compoundScalarCleared(t, d, op, val, seen) ==
    [tree |-> clearTree,
     data |-> [k \in 1..Len(d) |->
                  IF k - 1 \in Range(seen) THEN opValue(op, d[k], <<val, 1>>) ELSE <<d[k], 1>>]]

\* operator op= (const DTYPE& val): e.second op= val for every element iterated
compoundScalar(t, d, op, val, seen) ==
    [tree |-> t,
     data |-> [k \in 1..Len(d) |->
                  IF k - 1 \in Range(seen) THEN opValue(op, d[k], <<val, 1>>) ELSE <<d[k], 1>>]]

\* operator op= (const Field& rhs): rhs.get(e.first) returns for every
\* element iterated
compoundReturns(seen, f, env) ==
    \A n \in 1..Len(seen) : get(f.tree, seen[n], TRUE, env, 1)

\* operator op= (const Field& rhs): e.second op= rhs.get(e.first) for every
\* element iterated; the left field and rhs as the loop leaves them
compoundField(t, d, op, f, seen, env) ==
    [tree |-> t,
     data |-> [k \in 1..Len(d) |->
                  IF k - 1 \in Range(seen)
                  THEN opValue(op, d[k], getResult(f.tree, f.data, k - 1, TRUE, env))
                  ELSE <<d[k], 1>>],
     rhs |-> f]

\* The values the model keeps in data: the whole numbers up to MaxValue
Storable(fracs) ==
    \A k \in 1..Len(fracs) : fracs[k][2] = 1 /\ fracs[k][1] \in 0..MaxValue

\* The values as data holds them
Stored(fracs) == [k \in 1..Len(fracs) |-> fracs[k][1]]

\* enum { BR_THROW, BR_REFINE, BR_INTERP, BR_NOTHING } bracket_behavior
BR_THROW == 0
BR_REFINE == 1
BR_INTERP == 2
BR_NOTHING == 3

\* case BR_INTERP: intermediate = get(coord); return intermediate
bracketInterp(same, v, count) ==
    [same EXCEPT !.value = v, !.intermediate = v, !.count = count]

\* case BR_REFINE: refineTo(coord); return data[coord]
bracketRefine(same, st, coord, env) ==
    [same EXCEPT !.outcome = st.outcome, !.tree = st.tree, !.data = st.data,
                 !.value = IF st.outcome = "ok" THEN DataRead(st.data, coord, env)
                           ELSE <<0, 1>>]

\* operator[](coord) with bracket_behavior = behavior: what it returns and
\* how it leaves the field and the intermediate
bracket(t, d, coord, behavior, slot, env) ==
    LET same == [outcome |-> "ok", tree |-> t, data |-> d, value |-> <<0, 1>>,
                 intermediate |-> slot, count |-> <<0, 0>>]
    IN IF exists(t, coord, env)
       THEN [same EXCEPT !.value = DataRead(d, coord, env)]
       ELSE CASE behavior = BR_THROW -> [same EXCEPT !.outcome = "range_error"]
              [] behavior = BR_INTERP ->
                     IF get(t, coord, TRUE, env, 1)
                     THEN bracketInterp(same, getResult(t, d, coord, TRUE, env),
                                        coeffCount(t, coord, TRUE, env))
                     ELSE [same EXCEPT !.outcome = "stack_overflow"]
              [] behavior = BR_REFINE -> bracketRefine(same, refineTo(t, d, coord, env), coord, env)
              [] behavior = BR_NOTHING -> [same EXCEPT !.value = slot]

(***************************************************************************)
(* The state machine: one Field and the calls made on it.                  *)
(***************************************************************************)

VARIABLES
    tree,       \* Field::tree
    data,       \* Field::data
    clz0,       \* what this build's __builtin_clzll yields for 0
    call,       \* the last call made on the field, with its arguments
    outcome,    \* how it ended
    result,     \* what exists() or isTop() returned
    visited,    \* the coords an iteration dereferenced, in order
    oob,        \* the call accessed tree[] or data[] beyond the vector
    pre_tree,   \* tree before the call
    pre_data,   \* data before the call
    coeffs,     \* the map getCoeffs() filled
    value,      \* what get() or operator[] returned
    path,       \* a coord and what getNeighbor returned, call after call
    directions, \* the directions of these calls
    other,      \* a second Field: the right-hand side of an operator
    intermediate, \* Field::intermediate
    coeff_up_count,  \* Field::coeff_up_count
    coeff_down_count, \* Field::coeff_down_count
    neighbor    \* what getNeighbor2 returned

vars == <<tree, data, clz0, call, outcome, result, visited, oob, pre_tree, pre_data,
          coeffs, value, path, directions, other, intermediate,
          coeff_up_count, coeff_down_count, neighbor>>

\* What a read beyond the vector may yield in this build
Env(stale) == [stale |-> stale, clz0 |-> clz0]

\* The memory images to try for a call on coord: they differ only for a call
\* that reads beyond the vector
Stales(coord) == IF existsOob(tree, coord) THEN 0..MaxStale ELSE {0}

\* What data[coord] may hold where a call reads it beyond the vector: get
\* reads data[] only at coords exists() has read tree[] for
Junks(coord) == IF existsOob(tree, coord) THEN 0..MaxValue ELSE {0}

\* The same for an iteration: up to its first read beyond the vector it runs
\* the same way whatever lies there
IterStales(top_only) ==
    IF iterate(tree, top_only, Env(0)).oob THEN 0..MaxStale ELSE {0}

\* The coords calls are made with: the center, the first coord of each
\* level, a coord that is not the first child of its parent, and a boundary
\* coord
Coords ==
    {1} \cup {CreateMinLevel(l) : l \in 1..MaxFieldLevel}
        \cup {CreateMinLevel(1) + 1}
        \cup {getNeighbor(1, 0, HCS_COORD_BITS)}

\* The coords get and getCoeffs are asked for: those above, a coord away
\* from the domain boundary, and of the level above the deepest populated one
\* the first coord and one away from the domain boundary
QueryCoords ==
    Coords \cup {CreateMinLevel(2) + part_mask}
           \cup {CreateMinLevel(MaxFieldLevel + 1),
                 CreateMinLevel(MaxFieldLevel + 1) + part_mask}

Levels == 0..MaxFieldLevel

\* The fields takeStructure copies from: a new one and the fully populated ones
OtherTrees == {clearTree} \cup {createEntireLevel(clearTree, L) : L \in Levels}

\* A Field as its constructor leaves it
newField == [tree |-> clearTree, data |-> clearData]

\* Field::intermediate before anything is stored in it: the constructor does
\* not initialise it, and nothing reads it before operator[] does
Uninitialized == "uninitialized"

Call(op, coord, arg, flag, stale) ==
    [op |-> op, coord |-> coord, arg |-> arg, flag |-> flag, stale |-> stale]

\* The process still runs: the last call returned or threw
Alive == outcome \in {"ok", "range_error"}

\* The next call is made on a field no call has been made on yet: a new one,
\* or one the last call has changed.  A call that left tree and data as they
\* were (a query, a throw, a call without effect) leaves the field of the
\* state before it, from where every call is made already.
Callable ==
    /\ Alive
    /\ call.op = "Field" \/ tree # pre_tree \/ data # pre_data

Returned(t, d, r, v, o) ==
    /\ tree' = t
    /\ data' = d
    /\ result' = r
    /\ visited' = v
    /\ oob' = o
    /\ pre_tree' = tree
    /\ pre_data' = data
    /\ clz0' = clz0
    /\ coeffs' = <<>>
    /\ value' = <<0, 1>>
    /\ UNCHANGED <<path, directions, other, intermediate, coeff_up_count,
                   coeff_down_count, neighbor>>

\* Field::Field: clear() and nothing else that touches the vectors
Init ==
    /\ tree = clearTree
    /\ data = clearData
    /\ clz0 \in {HCS_COORD_BITS - 1, HCS_COORD_BITS}
    /\ call = Call("Field", 0, 0, FALSE, 0)
    /\ outcome = "ok"
    /\ result = FALSE
    /\ visited = <<>>
    /\ oob = FALSE
    /\ pre_tree = clearTree
    /\ pre_data = clearData
    /\ coeffs = <<>>
    /\ value = <<0, 1>>
    /\ path = <<>>
    /\ directions = <<>>
    /\ other = newField
    /\ intermediate = Uninitialized
    /\ coeff_up_count = 0
    /\ coeff_down_count = 0
    /\ neighbor = 0

Clear ==
    /\ Callable
    /\ call' = Call("clear", 0, 0, FALSE, 0)
    /\ outcome' = "ok"
    /\ Returned(clearTree, clearData, FALSE, <<>>, FALSE)

CreateEntireLevel(level) ==
    /\ Callable
    /\ call' = Call("createEntireLevel", 0, level, FALSE, 0)
    /\ IF Len(data) > 2
       THEN /\ outcome' = "range_error"
            /\ Returned(tree, data, FALSE, <<>>, FALSE)
       ELSE /\ outcome' = "ok"
            /\ Returned(createEntireLevel(tree, level),
                        Resize(data, CreateMaxLevel(level) + 2, 0),
                        FALSE, <<>>, FALSE)

RefineFrom(coord, interpolate_new_values, stale) ==
    /\ Callable
    /\ (exists(tree, coord, Env(stale)) /\ isTop(tree, coord, Env(stale)))
           => Level(coord) < MaxFieldLevel
    /\ call' = Call("refineFrom", coord, 0, interpolate_new_values, stale)
    /\ LET st == refineFrom(tree, data, coord, interpolate_new_values, Env(stale))
       IN /\ outcome' = st.outcome
          /\ Returned(st.tree, st.data, FALSE, <<>>, existsOob(tree, coord))

RefineTo(coord, stale) ==
    /\ Callable
    /\ call' = Call("refineTo", coord, 0, FALSE, stale)
    /\ LET st == refineTo(tree, data, coord, Env(stale))
       IN /\ outcome' = st.outcome
          /\ Returned(st.tree, st.data, FALSE, <<>>, existsOob(tree, coord))

Coarse(coord, stale) ==
    /\ Callable
    /\ call' = Call("coarse", coord, 0, FALSE, stale)
    /\ outcome' = "ok"
    /\ Returned(coarse(tree, Len(data), coord, Env(stale)), data, FALSE, <<>>,
                existsOob(tree, coord))

TakeStructure(ft) ==
    /\ Callable
    /\ call' = Call("takeStructure", 0, Len(ft), FALSE, 0)
    /\ outcome' = "ok"
    /\ Returned(takeStructureTree(tree, Len(data), ft, Len(ft), Env(0)),
                takeStructureData(tree, data, ft, Len(ft), Env(0)), FALSE, <<>>, FALSE)

AssignScalar(f, stale) ==
    /\ Callable
    /\ call' = Call("assign", 0, f, FALSE, stale)
    /\ LET it == iterate(tree, FALSE, Env(stale))
       IN /\ outcome' = IF it.ok THEN "ok" ELSE "runaway"
          /\ Returned(tree, assignScalar(data, f, it.visited), FALSE,
                      it.visited, it.oob)

Exists(coord, stale) ==
    /\ Callable
    /\ call' = Call("exists", coord, 0, FALSE, stale)
    /\ outcome' = "ok"
    /\ Returned(tree, data, exists(tree, coord, Env(stale)), <<>>,
                existsOob(tree, coord))

IsTop(coord, stale) ==
    /\ Callable
    /\ call' = Call("isTop", coord, 0, FALSE, stale)
    /\ IF exists(tree, coord, Env(stale))
       THEN /\ outcome' = "ok"
            /\ Returned(tree, data, isTop(tree, coord, Env(stale)), <<>>,
                        existsOob(tree, coord))
       ELSE /\ outcome' = "range_error"
            /\ Returned(tree, data, FALSE, <<>>, existsOob(tree, coord))

\* nElements() and nElementsTop(): the count is the length of visited
NElements(top_only, stale) ==
    /\ Callable
    /\ call' = Call("nElements", 0, 0, top_only, stale)
    /\ LET it == iterate(tree, top_only, Env(stale))
       IN /\ outcome' = IF it.ok THEN "ok" ELSE "runaway"
          /\ Returned(tree, data, FALSE, it.visited, it.oob)

\* The counters after a call that executed count[1] times coeff_up_count++
\* and count[2] times coeff_down_count++.  A call that ends the process
\* leaves nothing to observe: the counters are kept as they were before it.
Counted(count) ==
    /\ coeff_up_count' = coeff_up_count + count[1]
    /\ coeff_down_count' = coeff_down_count + count[2]

\* get(coord, use_non_top); junk is what a read of data[] beyond the vector
\* yields
Get(coord, use_non_top, stale, junk) ==
    /\ Callable
    /\ call' = Call("get", coord, 0, use_non_top, stale)
    /\ IF get(tree, coord, use_non_top, Env(stale), 1)
       THEN /\ outcome' = "ok"
            /\ value' = getResult(tree, data, coord, use_non_top,
                                  [stale |-> stale, clz0 |-> clz0, junk |-> junk])
            /\ Counted(coeffCount(tree, coord, use_non_top, Env(stale)))
       ELSE /\ outcome' = "stack_overflow"
            /\ value' = <<0, 1>>
            /\ UNCHANGED <<coeff_up_count, coeff_down_count>>
    /\ coeffs' = <<>>
    /\ UNCHANGED <<tree, data, clz0, result, visited, path, directions, other,
                   intermediate, neighbor>>
    /\ oob' = existsOob(tree, coord)
    /\ pre_tree' = tree
    /\ pre_data' = data

\* getCoeffs(coord, coeffs, use_non_top) on an empty map
GetCoeffs(coord, use_non_top, stale) ==
    /\ Callable
    /\ call' = Call("getCoeffs", coord, 0, use_non_top, stale)
    /\ IF getCoeffsExit(tree, coord, use_non_top, Env(stale), 0)
       THEN /\ outcome' = "exit"
            /\ coeffs' = <<>>
            /\ UNCHANGED <<coeff_up_count, coeff_down_count>>
       ELSE /\ outcome' = "ok"
            /\ coeffs' = getCoeffs(tree, coord, use_non_top, Env(stale))
            /\ Counted(coeffCount(tree, coord, use_non_top, Env(stale)))
    /\ value' = <<0, 1>>
    /\ UNCHANGED <<tree, data, clz0, result, visited, path, directions, other,
                   intermediate, neighbor>>
    /\ oob' = existsOob(tree, coord)
    /\ pre_tree' = tree
    /\ pre_data' = data

Next ==
    \/ Clear
    \/ \E level \in Levels : CreateEntireLevel(level)
    \/ \E coord \in Coords, i \in BOOLEAN :
           \E stale \in Stales(coord) : RefineFrom(coord, i, stale)
    \/ \E coord \in Coords : \E stale \in Stales(coord) : RefineTo(coord, stale)
    \/ \E coord \in Coords : \E stale \in Stales(coord) : Coarse(coord, stale)
    \/ \E ft \in OtherTrees : TakeStructure(ft)
    \/ \E f \in 1..MaxValue : \E stale \in IterStales(FALSE) : AssignScalar(f, stale)
    \/ \E coord \in Coords : \E stale \in Stales(coord) : Exists(coord, stale)
    \/ \E coord \in Coords : \E stale \in Stales(coord) : IsTop(coord, stale)
    \/ \E top_only \in BOOLEAN :
           \E stale \in IterStales(top_only) : NElements(top_only, stale)

Spec == Init /\ [][Next]_vars

(***************************************************************************)
(* The reads: get and getCoeffs change neither tree nor data, so they are  *)
(* applied to fields the calls above leave: a new field and the fully      *)
(* populated ones, as created and after an assignment from a scalar.       *)
(***************************************************************************)

\* x.createEntireLevel(level) on a new field
createdField(level) ==
    [tree |-> createEntireLevel(clearTree, level),
     data |-> Resize(clearData, CreateMaxLevel(level) + 2, 0)]

\* x = f on a field whose iteration ends without reading beyond the vector
assignedField(x, f) ==
    LET it == iterate(x.tree, FALSE, [stale |-> 0, clz0 |-> HCS_COORD_BITS])
    IN IF it.ok /\ ~it.oob
       THEN [tree |-> x.tree, data |-> assignScalar(x.data, f, it.visited)]
       ELSE x

ReadFields ==
    LET created == {[tree |-> clearTree, data |-> clearData]}
                       \cup {createdField(level) : level \in Levels}
    IN created \cup {assignedField(x, f) : x \in created, f \in 1..MaxValue}

InitRead ==
    /\ \E x \in ReadFields :
           /\ tree = x.tree
           /\ data = x.data
           /\ pre_tree = x.tree
           /\ pre_data = x.data
    /\ clz0 \in {HCS_COORD_BITS - 1, HCS_COORD_BITS}
    /\ call = Call("Field", 0, 0, FALSE, 0)
    /\ outcome = "ok"
    /\ result = FALSE
    /\ visited = <<>>
    /\ oob = FALSE
    /\ coeffs = <<>>
    /\ value = <<0, 1>>
    /\ path = <<>>
    /\ directions = <<>>
    /\ other = newField
    /\ intermediate \in {<<junk, 1>> : junk \in 0..MaxValue}
    /\ coeff_up_count = 0
    /\ coeff_down_count = 0
    /\ neighbor = 0

\* operator[] has ended, leaving st
BracketReturned(st) ==
    /\ outcome' = st.outcome
    /\ tree' = st.tree
    /\ data' = st.data
    /\ value' = st.value
    /\ intermediate' = st.intermediate
    /\ Counted(st.count)

\* x[coord] with bracket_behavior set to behavior
Bracket(coord, behavior, stale, junk) ==
    /\ Callable
    /\ call' = Call("operator[]", coord, behavior, FALSE, stale)
    /\ BracketReturned(bracket(tree, data, coord, behavior, intermediate,
                                [stale |-> stale, clz0 |-> clz0, junk |-> junk]))
    /\ coeffs' = <<>>
    /\ UNCHANGED <<clz0, result, visited, path, directions, other, neighbor>>
    /\ oob' = existsOob(tree, coord)
    /\ pre_tree' = tree
    /\ pre_data' = data

NextRead ==
    \/ \E coord \in QueryCoords, use_non_top \in BOOLEAN :
           \E stale \in Stales(coord), junk \in Junks(coord) :
               Get(coord, use_non_top, stale, junk)
    \/ \E coord \in QueryCoords, use_non_top \in BOOLEAN :
           \E stale \in Stales(coord) : GetCoeffs(coord, use_non_top, stale)
    \/ \E coord \in QueryCoords, behavior \in {BR_THROW, BR_REFINE, BR_INTERP, BR_NOTHING} :
           \E stale \in Stales(coord), junk \in Junks(coord) :
               Bracket(coord, behavior, stale, junk)
    \/ \E coord \in QueryCoords : \E stale \in Stales(coord) : Exists(coord, stale)
    \/ \E coord \in QueryCoords : \E stale \in Stales(coord) : IsTop(coord, stale)
    \/ \E top_only \in BOOLEAN :
           \E stale \in IterStales(top_only) : NElements(top_only, stale)

SpecRead == InitRead /\ [][NextRead]_vars

(***************************************************************************)
(* The operators between two fields: the field and a second one, each a    *)
(* new field or a fully populated one, as created or after an assignment   *)
(* from a scalar.                                                          *)
(***************************************************************************)

InitOps ==
    /\ \E x \in ReadFields :
           /\ tree = x.tree
           /\ data = x.data
           /\ pre_tree = x.tree
           /\ pre_data = x.data
    /\ other \in ReadFields
    /\ clz0 \in {HCS_COORD_BITS - 1, HCS_COORD_BITS}
    /\ call = Call("Field", 0, 0, FALSE, 0)
    /\ outcome = "ok"
    /\ result = FALSE
    /\ visited = <<>>
    /\ oob = FALSE
    /\ coeffs = <<>>
    /\ value = <<0, 1>>
    /\ path = <<>>
    /\ directions = <<>>
    /\ intermediate = Uninitialized
    /\ coeff_up_count = 0
    /\ coeff_down_count = 0
    /\ neighbor = 0

\* x = other
AssignField(ndebug) ==
    /\ Callable
    /\ call' = Call("assignField", 0, 0, ndebug, 0)
    /\ LET st == assignField(data, other.data, ndebug)
       IN /\ outcome' = st.outcome
          /\ Returned(tree, st.data, FALSE, <<>>, FALSE)

\* Field other = x: the second field is constructed as a copy of the first
CopyField ==
    /\ Callable
    /\ call' = Call("copy", 0, 0, FALSE, 0)
    /\ outcome' = "ok"
    /\ other' = copyField([tree |-> tree, data |-> data])
    /\ coeffs' = <<>>
    /\ value' = <<0, 1>>
    /\ result' = FALSE
    /\ visited' = <<>>
    /\ oob' = FALSE
    /\ pre_tree' = tree
    /\ pre_data' = data
    /\ UNCHANGED <<tree, data, clz0, path, directions, intermediate, coeff_up_count,
                   coeff_down_count, neighbor>>

\* x op= val, for the values data stays within MaxValue with
CompoundScalar(op, val, stale) ==
    /\ Callable
    /\ call' = Call(op, 0, val, FALSE, stale)
    /\ LET it == iterate(tree, FALSE, Env(stale))
           st == compoundScalar(tree, data, op, val, it.visited)
       IN /\ Storable(st.data)
          /\ outcome' = IF it.ok THEN "ok" ELSE "runaway"
          /\ Returned(st.tree, Stored(st.data), FALSE, it.visited, it.oob)

\* x op= other once every rhs.get has returned
CompoundFieldReturns(st, it) ==
    /\ Storable(st.data)
    /\ outcome' = IF it.ok THEN "ok" ELSE "runaway"
    /\ tree' = st.tree
    /\ data' = Stored(st.data)
    /\ other' = st.rhs
    /\ result' = FALSE
    /\ visited' = it.visited
    /\ oob' = it.oob
    /\ pre_tree' = tree
    /\ pre_data' = data
    /\ coeffs' = <<>>
    /\ value' = <<0, 1>>
    /\ UNCHANGED <<clz0, path, directions, intermediate, coeff_up_count,
                   coeff_down_count, neighbor>>

\* x op= other; junk is what a read of other.data[] beyond the vector yields
CompoundField(op, stale, junk) ==
    /\ Callable
    /\ call' = Call(op, 0, 0, TRUE, stale)
    /\ LET it == iterate(tree, FALSE, Env(stale))
       IN IF ~compoundReturns(it.visited, other, Env(stale))
          THEN /\ outcome' = "stack_overflow"
               /\ Returned(tree, data, FALSE, it.visited, it.oob)
          ELSE CompoundFieldReturns(compoundField(tree, data, op, other, it.visited,
                                                  [stale |-> stale, clz0 |-> clz0,
                                                   junk |-> junk]),
                                    it)

\* The memory images to try for x.takeStructure(other): they differ only
\* when sameStructure reads other.tree beyond the vector
StructureStales ==
    IF Len(other.data) = Len(data) /\ Len(other.tree) < Len(tree)
    THEN 0..MaxStale ELSE {0}

\* x.takeStructure(other)
TakeStructureOther(stale) ==
    /\ Callable
    /\ call' = Call("takeStructure", 0, Len(other.tree), TRUE, stale)
    /\ outcome' = "ok"
    /\ Returned(takeStructureTree(tree, Len(data), other.tree, Len(other.data), Env(stale)),
                takeStructureData(tree, data, other.tree, Len(other.data), Env(stale)),
                FALSE, <<>>, Len(other.data) = Len(data) /\ Len(other.tree) < Len(tree))

CompoundOps == {"+=", "-=", "*=", "/="}

NextOps ==
    \/ \E ndebug \in BOOLEAN : AssignField(ndebug)
    \/ CopyField
    \/ \E f \in 1..MaxValue : \E stale \in IterStales(FALSE) : AssignScalar(f, stale)
    \/ \E op \in CompoundOps, val \in 1..MaxValue :
           \E stale \in IterStales(FALSE) : CompoundScalar(op, val, stale)
    \/ \E op \in CompoundOps, stale \in 0..MaxStale, junk \in 0..MaxValue :
           CompoundField(op, stale, junk)
    \/ \E stale \in StructureStales : TakeStructureOther(stale)

SpecOps == InitOps /\ [][NextOps]_vars

(***************************************************************************)
(* hcs.hpp on its own: getNeighbor applied to a coord, then to its result. *)
(***************************************************************************)

\* The coords getNeighbor starts from: every coord of the levels up to the
\* one above the deepest populated, and of each deeper level the first, the
\* last and one away from the domain boundary
HcsCoords ==
    {c \in 1..CreateMaxLevel(MaxFieldLevel + 1) : ValidCoord(c)}
        \cup UNION {{CreateMinLevel(l), CreateMinLevel(l) + part_mask, CreateMaxLevel(l)} :
                       l \in (MaxFieldLevel + 2)..max_level}

InitHCS ==
    /\ tree = clearTree
    /\ data = clearData
    /\ pre_tree = clearTree
    /\ pre_data = clearData
    /\ clz0 \in {HCS_COORD_BITS - 1, HCS_COORD_BITS}
    /\ call = Call("HCS", 0, 0, FALSE, 0)
    /\ outcome = "ok"
    /\ result = FALSE
    /\ visited = <<>>
    /\ oob = FALSE
    /\ coeffs = <<>>
    /\ value = <<0, 1>>
    /\ \E c \in HcsCoords : path = <<c>>
    /\ directions = <<>>
    /\ other = newField
    /\ intermediate = Uninitialized
    /\ coeff_up_count = 0
    /\ coeff_down_count = 0
    /\ neighbor = 0

\* hcs.getNeighbor(coord, direction) on the coord the path ends with
GetNeighbor(direction) ==
    /\ Len(directions) < MaxSteps
    /\ call.op # "getNeighbor2"
    /\ call' = Call("getNeighbor", path[Len(path)], direction, FALSE, 0)
    /\ path' = Append(path, getNeighbor(path[Len(path)], direction, clz0))
    /\ directions' = Append(directions, direction)
    /\ UNCHANGED <<tree, data, clz0, outcome, result, visited, oob, pre_tree,
                   pre_data, coeffs, value, other, intermediate, coeff_up_count,
                   coeff_down_count, neighbor>>

\* hcs.getNeighbor2(coord, direction) on the coord the path ends with, a
\* valid coord inside the domain.  The call changes nothing in hcs: the calls
\* that follow it are made from the state before it already.
GetNeighbor2(direction, wraps) ==
    /\ ValidCoord(path[Len(path)])
    /\ call.op # "getNeighbor2"
    /\ call' = Call("getNeighbor2", path[Len(path)], direction, wraps, 0)
    /\ neighbor' = getNeighbor2(path[Len(path)], direction, clz0, wraps)
    /\ UNCHANGED <<tree, data, clz0, outcome, result, visited, oob, pre_tree,
                   pre_data, coeffs, value, other, intermediate, coeff_up_count,
                   coeff_down_count, path, directions>>

NextHCS ==
    \/ \E direction \in 0..(2 * dimensions - 1) : GetNeighbor(direction)
    \/ \E direction \in 0..(2 * dimensions - 1), wraps \in BOOLEAN :
           GetNeighbor2(direction, wraps)

SpecHCS == InitHCS /\ [][NextHCS]_vars

(***************************************************************************)
(* Vocabulary of the claims                                                *)
(***************************************************************************)

\* The proper ancestors of c: ReduceLevel applied once or more, down to 1
RECURSIVE Ancestors(_)
Ancestors(c) ==
    IF IsBoundary(c) \/ c <= 1 THEN {}
    ELSE {ReduceLevel(c)} \cup Ancestors(ReduceLevel(c))

\* d lies above c: c is reached from d by repeated ReduceLevel
IsDescendant(d, c) == c \in Ancestors(d)

Children(c) == {IncreaseLevel(c, k) : k \in 0..part_mask}

\* The coords of one level and of the levels 1..L
LevelCoords(l) == CreateMinLevel(l)..CreateMaxLevel(l)

\* The in-bounds coords c >= 1 of a tree
InBounds(t) == 1..(Len(t) - 1)

\* exists(c) and isTop(c) as the field answers them for a coord inside the
\* vector, where no memory beyond it is read
existsIn(t, c) == exists(t, c, Env(0))
isTopIn(t, c) == existsIn(t, c) /\ isTop(t, c, Env(0))

(***************************************************************************)
(* C1 .. C3: the meaning of tree[] and exists()                            *)
(***************************************************************************)

\* C1: in every reachable state, for every in-bounds coord c >= 1:
\* tree[c] == c iff c exists and is top; tree[c] > c implies that tree[c]
\* exists, is top and is a descendant of c; tree[c] < c iff c does not exist.
\* "exists" and "is top" are what Field::exists and Field::isTop answer; a
\* coord that exists lies inside the vector.
C1_TreePointerSemantics ==
    Alive =>
        \A c \in InBounds(tree) :
            /\ (At(tree, c) = c) <=> isTopIn(tree, c)
            /\ (At(tree, c) > c) =>
                   /\ At(tree, c) \in InBounds(tree)
                   /\ isTopIn(tree, At(tree, c))
                   /\ IsDescendant(At(tree, c), c)
            /\ (At(tree, c) < c) <=> ~existsIn(tree, c)

\* C2: exists(1) returns true whenever it is called: directly after
\* construction, after clear() and after any sequence of the operations.
C2_CenterExists ==
    (call.op = "exists" /\ outcome = "ok" /\ call.coord = 1) => result = TRUE

\* C3: exists(c) never reads tree[] beyond the vector; it returns false when
\* c is a boundary coord or c >= size(tree), and (tree[c] >= c) otherwise.
C3_ExistsTotal ==
    (call.op = "exists" /\ outcome = "ok") =>
        /\ ~oob
        /\ result = (IF IsBoundary(call.coord) \/ call.coord >= Len(tree)
                     THEN FALSE
                     ELSE At(tree, call.coord) >= call.coord)

(***************************************************************************)
(* C4 .. C7: the shape of the tree and the iterators.  Field::exists is    *)
(* false for every coord inside the vector (C3), so "c exists" and "c is   *)
(* top" are read here as the tree records them: tree[c] >= c, tree[c] == c.*)
(***************************************************************************)

\* C4: in every reachable state every existing non-top coord has at least
\* one existing child, and every existing top coord has no existing child.
C4_TLCCoverage ==
    Alive =>
        \A c \in InBounds(tree) :
            /\ (TreeExists(tree, c) /\ ~TreeTop(tree, c)) =>
                   \E k \in Children(c) : TreeExists(tree, k)
            /\ TreeTop(tree, c) =>
                   \A k \in Children(c) : ~TreeExists(tree, k)

\* C5: after createEntireLevel(L), L >= 1, on an empty field: every coord of
\* the levels 1..L exists, every level-L coord is top, every coord c of the
\* levels 1..L-1 is non-top with tree[c] == tree[IncreaseLevel(c, 0)], and
\* the center exists and is not top.
C5_CreateEntireLevelPost ==
    (/\ call.op = "createEntireLevel"
     /\ outcome = "ok"
     /\ call.arg >= 1
     /\ pre_tree = clearTree) =>
        /\ \A l \in 1..call.arg : \A c \in LevelCoords(l) :
               /\ TreeExists(tree, c)
               /\ (l = call.arg) => TreeTop(tree, c)
               /\ (l < call.arg) =>
                      /\ ~TreeTop(tree, c)
                      /\ At(tree, c) = At(tree, IncreaseLevel(c, 0))
        /\ TreeExists(tree, 1)
        /\ ~TreeTop(tree, 1)

\* C6: the all-existing iteration visits every existing coord exactly once
\* and no other coord, in strictly ascending order, so that nElements() is
\* the number of coords with tree[c] >= c.
C6_IterateAllExisting ==
    (call.op = "nElements" /\ outcome = "ok" /\ ~call.flag) =>
        /\ \A n \in 1..(Len(visited) - 1) : visited[n] < visited[n + 1]
        /\ Range(visited) = {c \in InBounds(tree) : TreeExists(tree, c)}

\* C7: the top-only iteration visits exactly the coords with tree[c] == c,
\* each once, so that nElementsTop() is their number.
C7_IterateTopOnly ==
    (call.op = "nElements" /\ outcome = "ok" /\ call.flag) =>
        /\ Range(visited) = {c \in InBounds(tree) : TreeTop(tree, c)}
        /\ Len(visited) = Cardinality(Range(visited))

(***************************************************************************)
(* C8 .. C10: refineFrom, refineTo, coarse                                 *)
(***************************************************************************)

\* What exists() and isTop() answered for the coord of the last call, on the
\* field as it was before the call
existedBefore == exists(pre_tree, call.coord, Env(call.stale))
wasTopBefore == existedBefore /\ isTop(pre_tree, call.coord, Env(call.stale))

Unchanged == tree = pre_tree /\ data = pre_data

C9_RefineToPost ==
    (/\ call.op = "refineTo"
     /\ ~IsBoundary(call.coord)
     /\ Level(call.coord) >= 1
     /\ ~existedBefore
     /\ ~TreeExists(pre_tree, call.coord)) =>
        /\ outcome = "ok"
        /\ TreeTop(tree, call.coord)
        /\ \A a \in Ancestors(call.coord) :
               TreeExists(tree, a) /\ ~TreeTop(tree, a)

\* The coords above c: its children, their children, ... inside tree t
Descendants(t, c) == {d \in InBounds(t) : IsDescendant(d, c)}

\* C10: coarse(c) on an existing non-top coord c makes c top, leaves no
\* descendant of c existing, leaves every ancestor of c existing and
\* non-top, leaves every coord outside c's subtree as it was, and leaves
\* data unchanged; on a non-existent or top coord it changes nothing.
\* Existence is read as the tree records it (see C4).
C10_CoarsePost ==
    (call.op = "coarse" /\ outcome = "ok") =>
        LET c == call.coord
        IN IF TreeExists(pre_tree, c) /\ ~TreeTop(pre_tree, c)
           THEN /\ TreeTop(tree, c)
                /\ \A d \in Descendants(tree, c) : ~TreeExists(tree, d)
                /\ \A a \in Ancestors(c) : TreeExists(tree, a) /\ ~TreeTop(tree, a)
                /\ \A o \in InBounds(tree) \ (Descendants(tree, c) \cup {c}) :
                       /\ TreeExists(tree, o) = TreeExists(pre_tree, o)
                       /\ TreeTop(tree, o) = TreeTop(pre_tree, o)
                /\ data = pre_data
           ELSE Unchanged

(***************************************************************************)
(* C11 .. C13: getCoeffs and get (specification SpecRead)                  *)
(***************************************************************************)

\* The sum of the weights of a coefficient map
RECURSIVE coeffSum(_, _)
coeffSum(m, keys) ==
    IF keys = {} THEN <<0, 1>>
    ELSE LET k == CHOOSE x \in keys : TRUE
         IN FracAdd(m[k], coeffSum(m, keys \ {k}))

\* C11: partition of unity: on every field, for every non-boundary coord c,
\* existing or not, and either value of use_non_top, getCoeffs(c) returns
\* and the weights of the map it filled sum to exactly 1.
C11_PartitionOfUnity ==
    (call.op = "getCoeffs" /\ ~IsBoundary(call.coord)) =>
        /\ outcome = "ok"
        /\ coeffSum(coeffs, DOMAIN coeffs) = <<1, 1>>

\* C12: exactness: for a coord c that exists and is top (either value of
\* use_non_top), and for every existing c when use_non_top is true, get(c)
\* returns data[c] and getCoeffs(c) fills the map {c -> 1}.  Existence is
\* read as the tree records it (see C4).
C12_Exactness ==
    (/\ call.op \in {"get", "getCoeffs"}
     /\ TreeExists(tree, call.coord)
     /\ TreeTop(tree, call.coord) \/ call.flag) =>
        /\ outcome = "ok"
        /\ call.op = "get" => value = <<At(data, call.coord), 1>>
        /\ call.op = "getCoeffs" => coeffs = (call.coord :> <<1, 1>>)

\* C13: constant reproduction: on a field populated by createEntireLevel(L)
\* whose existing coords all hold the value v, with no boundary callback
\* registered, get(c) returns v for every coord c of level L + 1.
C13_ConstantReproduction ==
    \A L \in Levels, v \in 0..MaxValue :
        (/\ call.op = "get"
         /\ tree = createEntireLevel(clearTree, L)
         /\ \A c \in InBounds(tree) : TreeExists(tree, c) => At(data, c) = v
         /\ ValidCoord(call.coord)
         /\ Level(call.coord) = L + 1) =>
            /\ outcome = "ok"
            /\ value = <<v, 1>>

(***************************************************************************)
(* C14 .. C16: getNeighbor (specification SpecHCS)                         *)
(***************************************************************************)

\* The unscaled Cartesian coordinate of c on one axis: the bits of that axis,
\* one per level, below the level marker
RECURSIVE axisValue(_, _)
axisValue(c, axis) ==
    IF c <= 1 THEN 0
    ELSE ((c \div Pow2(axis)) % 2) + 2 * axisValue(c \div parts, axis)

\* A step from c in a direction leaves the domain [0, 2^level) on its axis
leavesDomain(c, direction) ==
    IF direction % 2 = 0
    THEN axisValue(c, direction \div 2) = Pow2(Level(c)) - 1
    ELSE axisValue(c, direction \div 2) = 0

\* C14: boundary round-trip: for a non-boundary coord c and a direction d
\* whose step leaves the domain, r = getNeighbor(c, d) is a boundary coord
\* with GetBoundaryDirection(r) == d and removeBoundary(r) == c.
C14_BoundaryRoundTrip ==
    (/\ call.op = "getNeighbor"
     /\ ValidCoord(call.coord)
     /\ leavesDomain(call.coord, call.arg)) =>
        LET r == path[Len(path)]
        IN /\ IsBoundary(r)
           /\ GetBoundaryDirection(r) = call.arg
           /\ removeBoundary(r) = call.coord

\* C15: neighbor involution: for a non-boundary coord c of a level
\* 0 .. max_level and an axis, a step in one direction of the axis followed
\* by a step in the other leads back to c when neither step returns a
\* boundary coord.
C15_NeighborInvolution ==
    (/\ Len(path) = 3
     /\ ValidCoord(path[1])
     /\ directions[1] \div 2 = directions[2] \div 2
     /\ directions[1] # directions[2]
     /\ ~IsBoundary(path[2])
     /\ ~IsBoundary(path[3])) =>
        path[3] = path[1]

\* C15, reached: two opposite steps inside the domain, from a coord of a
\* level >= 1
C15_Witness ==
    /\ Len(path) = 3
    /\ ValidCoord(path[1])
    /\ Level(path[1]) >= 1
    /\ directions[1] \div 2 = directions[2] \div 2
    /\ directions[1] # directions[2]
    /\ ~IsBoundary(path[2])
    /\ ~IsBoundary(path[3])

\* C16: for every boundary coord b and every direction d,
\* getNeighbor(b, d) == b.
C16_BoundaryNeighborIsItself ==
    (call.op = "getNeighbor" /\ IsBoundary(call.coord)) =>
        path[Len(path)] = call.coord

\* C17: |tree| == |data| in every state reachable by any sequence of
\* construction, copy, clear, createEntireLevel, refineFrom, refineTo, coarse,
\* takeStructure and field assignment, as long as the process runs.
C17_TreeDataSizeMatch == Alive => Len(tree) = Len(data)

C19_AssignFromField ==
    (call.op = "assignField") =>
        /\ tree = pre_tree
        /\ IF Len(pre_data) = Len(other.data)
           THEN outcome = "ok" /\ data = other.data
           ELSE Alive /\ outcome # "ok" /\ data = pre_data

\* C20: under BR_THROW, BR_INTERP and BR_NOTHING operator[] leaves tree and
\* data unchanged; on an existing coord it returns data[c]; on a non-existent
\* one it throws under BR_THROW, and returns the intermediate, which holds
\* get(c) under BR_INTERP, under the other two.
C20_BracketPolicies ==
    (call.op = "operator[]" /\ call.arg \in {BR_THROW, BR_INTERP, BR_NOTHING}) =>
        /\ tree = pre_tree
        /\ data = pre_data
        /\ IF TreeExists(pre_tree, call.coord)
           THEN outcome = "ok" /\ value = <<At(pre_data, call.coord), 1>>
           ELSE IF call.arg = BR_THROW
                THEN outcome = "range_error"
                ELSE outcome = "ok" /\ value = intermediate

\* The calls that only read the field
ReadOps == {"get", "getCoeffs", "exists", "isTop", "nElements"}

\* C21: get, getCoeffs, exists, isTop and an iteration leave every member of
\* the field as it was: tree, data, intermediate and the counters
\* coeff_up_count and coeff_down_count.
C21_ReadsArePure ==
    [][(call'.op \in ReadOps) =>
           /\ tree' = tree
           /\ data' = data
           /\ intermediate' = intermediate
           /\ coeff_up_count' = coeff_up_count
           /\ coeff_down_count' = coeff_down_count]_vars

\* C22: after x.takeStructure(other) x.sameStructure(other) is true, the
\* trees have the same size and the same entries, |x.data| == |x.tree|, a
\* second x.takeStructure(other) changes nothing, and when the structures
\* matched before the call, the call changed nothing.
C22_TakeStructurePost ==
    (call.op = "takeStructure" /\ call.flag) =>
        /\ sameStructure(tree, Len(data), other.tree, Len(other.data), Env(call.stale))
        /\ tree = other.tree
        /\ Len(data) = Len(tree)
        /\ takeStructureTree(tree, Len(data), other.tree, Len(other.data),
                             Env(call.stale)) = tree
        /\ takeStructureData(tree, data, other.tree, Len(other.data),
                             Env(call.stale)) = data
        /\ pre_tree = other.tree => (tree = pre_tree /\ data = pre_data)

\* C23: refineFrom(c) on a coord c that exists and is top (by the tree's
\* documented meaning) returns with: every child of c existing and top, c
\* existing and not top with tree[c] == IncreaseLevel(c, 0), no grandchild
\* of c existing, and every other coord existing and top as before.
C23_RefineFromPost ==
    (call.op = "refineFrom" /\ TreeTop(pre_tree, call.coord)) =>
        /\ outcome = "ok"
        /\ \A child \in Children(call.coord) : TreeTop(tree, child)
        /\ TreeExists(tree, call.coord)
        /\ At(tree, call.coord) = IncreaseLevel(call.coord, 0)
        /\ \A child \in Children(call.coord) :
               \A grandchild \in Children(child) : ~TreeExists(tree, grandchild)
        /\ \A c \in 1..(Len(tree) - 1) :
               c \notin Children(call.coord) \cup {call.coord} =>
                   /\ TreeExists(tree, c) = TreeExists(pre_tree, c)
                   /\ TreeTop(tree, c) = TreeTop(pre_tree, c)

\* C24: refineTo(c) for a non-boundary coord c of level 1 .. max_level comes
\* to an end: the search by ReduceLevel finds an existing coord and the
\* refineFrom steps that follow return.
C24_RefineToTerminates ==
    (/\ call.op = "refineTo"
     /\ ~IsBoundary(call.coord)
     /\ Level(call.coord) >= 1) =>
        /\ Alive
        /\ refineToDown(pre_tree, call.coord, 0, Env(call.stale)).found
        /\ refineToDown(pre_tree, call.coord, 0, Env(call.stale)).i <= Level(call.coord)

\* C25: for every non-boundary coord c of a level up to max_level and either
\* value of use_non_top, get(c) and getCoeffs(c) return: the recursion stays
\* within max_level, so the guard of getCoeffs never ends the process.
C25_ReadsTerminate ==
    (/\ call.op \in {"get", "getCoeffs"}
     /\ ~IsBoundary(call.coord)
     /\ Level(call.coord) <= max_level) =>
        /\ outcome \notin {"exit", "stack_overflow"}
        /\ ~getCoeffsExit(pre_tree, call.coord, call.flag, Env(call.stale), 0)

\* value(k): data[k] for an interior coord k, 0 for a boundary coord, no
\* callback being registered
coordValue(d, k, env) == IF IsBoundary(k) THEN <<0, 1>> ELSE DataRead(d, k, env)

\* The sum over the entries (k, w) of the map m of w * value(k)
RECURSIVE weightedSum(_, _, _, _)
weightedSum(m, keys, d, env) ==
    IF keys = {} THEN <<0, 1>>
    ELSE LET k == CHOOSE x \in keys : TRUE
         IN FracAdd(FracMul(m[k], coordValue(d, k, env)),
                    weightedSum(m, keys \ {k}, d, env))

\* The map getCoeffs(c) fills on the field and in the memory the last call
\* was made with
coeffsOfCall ==
    getCoeffs(pre_tree, call.coord, call.flag, Env(call.stale))

\* C26: get and getCoeffs are consistent: for every coord c and either value
\* of use_non_top both return, and get(c) equals the sum over the entries
\* (k, w) of getCoeffs(c) of w * value(k).
C26_GetMatchesCoeffs ==
    (call.op = "get") =>
        /\ outcome = "ok"
        /\ ~getCoeffsExit(pre_tree, call.coord, call.flag, Env(call.stale), 0)
        /\ \A junk \in 0..MaxValue :
               value = getResult(pre_tree, pre_data, call.coord, call.flag,
                                 [stale |-> call.stale, clz0 |-> clz0, junk |-> junk])
                   => value = weightedSum(coeffsOfCall, DOMAIN coeffsOfCall, pre_data,
                                          [stale |-> call.stale, clz0 |-> clz0,
                                           junk |-> junk])

\* C27: for every valid non-boundary coord c of a level 0 .. max_level and
\* every direction d, getNeighbor2(c, d) equals getNeighbor(c, d): the coord
\* of the same level whose unscaled coordinate on axis d / 2 is one more
\* (even d) or one less (odd d), the other axes unchanged, or a boundary
\* coord when that step leaves [0, 2^level); from c == 1 always a boundary
\* coord.
C27_NeighborsAgree ==
    (/\ call.op = "getNeighbor2"
     /\ ValidCoord(call.coord)
     /\ Level(call.coord) <= max_level) =>
        /\ neighbor = getNeighbor(call.coord, call.arg, clz0)
        /\ IF leavesDomain(call.coord, call.arg)
           THEN IsBoundary(neighbor)
           ELSE /\ ValidCoord(neighbor)
                /\ Level(neighbor) = Level(call.coord)
                /\ \A axis \in 0..(dimensions - 1) :
                       axisValue(neighbor, axis) =
                           axisValue(call.coord, axis)
                               + (IF axis # call.arg \div 2 THEN 0
                                  ELSE IF call.arg % 2 = 0 THEN 1 ELSE 0 - 1)

====
